---- MODULE Spec2Model ----
(***************************************************************************)
(* The persistence core of src/app.py: the sqlite tables users, projects,  *)
(* queries, student_project_mapping and student_project_map, and the       *)
(* repository functions that read and write them.                          *)
(*                                                                         *)
(* Text that the code strips, pattern-matches or tests for emptiness       *)
(* (emails, names, roles, titles, passwords) is a tuple of one-character   *)
(* strings, so that str.strip and the regular expression of is_valid_email *)
(* are computed.  Questions and responses are opaque strings.              *)
(* A nullable value (SQL NULL, Python None) is None == <<>>, a present     *)
(* value x is Some(x) == <<x>>.                                            *)
(*                                                                         *)
(* Every function takes the database as a record of its five tables and    *)
(* returns the database it leaves COMMITTED together with its return       *)
(* value.  A parameter `fault` names the statement at which sqlite raises  *)
(* sqlite3.Error (0: none): the environment's choice.  A connection that   *)
(* is dropped without commit() rolls its statements back.                  *)
(* One handler runs at a time (a Streamlit script run), so each action is  *)
(* one whole call.                                                         *)
(***************************************************************************)
EXTENDS Integers, Sequences, FiniteSets, TLC

VARIABLES users, projects, queries, student_project_mapping,
          student_project_map, uuid4, now, steps, last, current_project,
          mapped_titles, connection, issued

tables == <<users, projects, queries, student_project_mapping, student_project_map>>
vars == <<users, projects, queries, student_project_mapping,
          student_project_map, uuid4, now, steps, last, current_project,
          mapped_titles, connection, issued>>

----------------------------------------------------------------------------
(* Bounds of the model *)

\* calls explored from the initial database
MaxSteps == 2
\* seconds the wall clock advances (datetime.now() has second resolution)
MaxClock == 2
\* rows of the queries table of a stored database that the reports read
MaxQueries == 2
\* seconds in a day of the model's clock
SecondsPerDay == 2
\* advisory requests of one behaviour
MaxIssued == 11
\* times the clock of the advisory calls advances by half a period
MaxWaits == 2

----------------------------------------------------------------------------
(* Values *)

None == <<>>
Some(x) == <<x>>
\* Python truthiness of an optional text: None and "" are falsy
Truthy(o) == o # None /\ o[1] # <<>>

\* 'admin@college.edu'
AdminEmail == <<"a","d","m","i","n","@","c","o","l","l","e","g","e",".","e","d","u">>
\* 's@c.edu'
S1 == <<"s","@","c",".","e","d","u">>
\* 'x@y.com'
S2 == <<"x","@","y",".","c","o","m">>
\* 'n@c.edu'
S3 == <<"n","@","c",".","e","d","u">>
\* 'bad-email'
BadEmail == <<"b","a","d","-","e","m","a","i","l">>
\* ' s@c.edu ' as a CSV cell may hold it
PaddedS1 == <<" ">> \o S1 \o <<" ">>
\* 's@c.edu\n'
S1Newline == S1 \o <<"\n">>

\* 'Jane Admin'
JaneAdmin == <<"J","a","n","e"," ","A","d","m","i","n">>
Alice == <<"A","l","i","c","e">>
Bob == <<"B","o","b">>

Student == <<"s","t","u","d","e","n","t">>
Admin == <<"a","d","m","i","n">>
\* a role outside the two the code accepts
Guest == <<"g","u","e","s","t">>

\* 'default123'
default123 == <<"d","e","f","a","u","l","t","1","2","3">>
Pw1 == <<"p","w","1">>

\* 'AI Tutor'
AITutor == <<"A","I"," ","T","u","t","o","r">>
\* 'DB'
DBTitle == <<"D","B">>
\* 'No Project Assigned'
NoProjectAssigned == <<"N","o"," ","P","r","o","j","e","c","t"," ",
                       "A","s","s","i","g","n","e","d">>

Emails == {AdminEmail, S1}
Names == {Alice, Bob}
Roles == {Student, Admin}
Passwords == {default123, Pw1}
Titles == {AITutor, DBTitle}
Questions == {"q1", "q2"}
Responses == {"r1", "r2"}
\* st.slider("Feedback Rating", min_value=1, max_value=5, ..., step=1)
MinRating == 1
MaxRating == 5
\* a slider that starts at 0
FeedbackRatingsFromZero == 0..MaxRating
FeedbackRatings == MinRating..MaxRating
\* the name and role a caller gives a user
Profiles == {[name |-> Alice, role |-> Student], [name |-> Bob, role |-> Admin]}

----------------------------------------------------------------------------
(* Text functions *)

Whitespace == {" ", "\t", "\n", "\r"}

RECURSIVE LStrip(_)
LStrip(s) == IF s # <<>> /\ Head(s) \in Whitespace THEN LStrip(Tail(s)) ELSE s

RECURSIVE RStrip(_)
RStrip(s) ==
    IF s # <<>> /\ s[Len(s)] \in Whitespace
    THEN RStrip(SubSeq(s, 1, Len(s) - 1)) ELSE s

\* str.strip()
Strip(s) == RStrip(LStrip(s))

Letters == {"a","b","c","d","e","g","i","l","m","n","o","s","u","x","y",
            "A","B","D","I","J","T"}
Digits == {"1","2","3"}
\* [a-zA-Z0-9_.+-]
LocalClass == Letters \cup Digits \cup {"_", ".", "+", "-"}
\* [a-zA-Z0-9-]
DomainClass == Letters \cup Digits \cup {"-"}
\* [a-zA-Z0-9-.]
TldClass == Letters \cup Digits \cup {"-", "."}

\* ^[a-zA-Z0-9_.+-]+@[a-zA-Z0-9-]+\.[a-zA-Z0-9-.]+ up to the end of s
MatchesPattern(s) ==
    \E i \in 1..Len(s) : \E j \in 1..Len(s) :
        /\ 1 < i /\ i + 1 < j /\ j < Len(s)
        /\ s[i] = "@" /\ s[j] = "."
        /\ \A k \in 1..(i - 1) : s[k] \in LocalClass
        /\ \A k \in (i + 1)..(j - 1) : s[k] \in DomainClass
        /\ \A k \in (j + 1)..Len(s) : s[k] \in TldClass

\* re.match(pattern, email) is not None; `$` also matches before a final newline
is_valid_email(email) ==
    \/ MatchesPattern(email)
    \/ /\ email # <<>>
       /\ email[Len(email)] = "\n"
       /\ MatchesPattern(SubSeq(email, 1, Len(email) - 1))

\* the characters of the model's texts in the order of their code points, by
\* which sqlite's BINARY collation compares TEXT values
CodePointOrder ==
    <<"\t", "\n", "\r", " ", "+", "-", ".", "0", "1", "2", "3", "4", "5", "6",
      "7", "8", "9", "@", "A", "B", "C", "D", "E", "F", "G", "H", "I", "J", "K",
      "L", "M", "N", "O", "P", "Q", "R", "S", "T", "U", "V", "W", "X", "Y", "Z",
      "_", "a", "b", "c", "d", "e", "f", "g", "h", "i", "j", "k", "l", "m", "n",
      "o", "p", "q", "r", "s", "t", "u", "v", "w", "x", "y", "z">>

Ord(c) == CHOOSE i \in 1..Len(CodePointOrder) : CodePointOrder[i] = c

\* a < b as sqlite compares two TEXT values (memcmp, the shorter first on a tie)
TextLess(a, b) ==
    \E k \in 1..(Len(b)) :
        /\ \A j \in 1..(k - 1) : j <= Len(a) /\ a[j] = b[j]
        /\ \/ k = Len(a) + 1
           \/ k <= Len(a) /\ Ord(a[k]) < Ord(b[k])

\* ORDER BY over a set of distinct texts
RECURSIVE SortTexts(_)
SortTexts(S) ==
    IF S = {} THEN <<>>
    ELSE LET least == CHOOSE x \in S : \A y \in S \ {x} : TextLess(x, y)
         IN  <<least>> \o SortTexts(S \ {least})

----------------------------------------------------------------------------
(* Password hashing (passlib pbkdf2_sha256) *)

\* the checksum PBKDF2 derives from a password and a salt
Pbkdf2(password, salt) == <<salt, password>>

\* pbkdf2_sha256.hash: the salt is stored beside the checksum
hash_password(password, salt) == [salt |-> salt, checksum |-> Pbkdf2(password, salt)]

\* pbkdf2_sha256.verify: re-hash with the embedded salt and compare
pbkdf2_verify(password, h) == Pbkdf2(password, h.salt) = h.checksum

----------------------------------------------------------------------------
(* The database *)

DB == [users |-> users, projects |-> projects, queries |-> queries,
       student_project_mapping |-> student_project_mapping,
       student_project_map |-> student_project_map]

EmptyFile == [users |-> {}, projects |-> {}, queries |-> {},
              student_project_mapping |-> {}, student_project_map |-> {}]

\* a database written before users had a password_hash column
LegacyFile == [EmptyFile EXCEPT
                 !.users = {[email |-> S1, name |-> Alice, role |-> Student]}]

DatabaseError == "Database error. Please try again."

UserRows(db, email) == {u \in db.users : u.email = email}

\* INSERT OR IGNORE INTO users: email is the primary key
InsertOrIgnoreUser(rows, row) ==
    IF \E u \in rows : u.email = row.email THEN rows ELSE rows \cup {row}

\* an INSERT into users that leaves the row of the same email in place
InsertBesideUser(rows, row) == rows \cup {row}

\* INSERT OR REPLACE INTO users: the row of the same primary key is deleted first
InsertOrReplaceUser(rows, row) ==
    {u \in rows : u.email # row.email} \cup {row}

\* an init_db that writes the default administrator over a row of its email
init_db_replacing_admin(db, salt) ==
    [db EXCEPT !.users = InsertOrReplaceUser(@,
        [email |-> AdminEmail, name |-> JaneAdmin, role |-> Admin,
         password_hash |-> Some(hash_password(default123, salt))])]

\* init_db: CREATE TABLE IF NOT EXISTS leaves existing tables alone, ALTER TABLE
\* gives the rows of an old users table a NULL password_hash, and the default
\* administrator is inserted unless a row has its email
init_db(db, salt) ==
    LET migrated == {IF "password_hash" \in DOMAIN u THEN u
                     ELSE [email |-> u.email, name |-> u.name, role |-> u.role,
                           password_hash |-> None] : u \in db.users}
        default_admin == [email |-> AdminEmail, name |-> JaneAdmin, role |-> Admin,
                          password_hash |-> Some(hash_password(default123, salt))]
    IN  [db EXCEPT !.users = InsertOrIgnoreUser(migrated, default_admin)]

----------------------------------------------------------------------------
(* Repository functions *)

\* verify_user: `raised` is an exception that leaves the function (passlib raises
\* TypeError on a NULL hash, which `except sqlite3.Error` does not catch)
verify_user(db, email, password, fault) ==
    IF fault # 0
    THEN [db |-> db, user_info |-> None, error |-> Some(DatabaseError), raised |-> FALSE]
    ELSE LET result == UserRows(db, email) IN
         IF result = {}
         THEN [db |-> db, user_info |-> None, error |-> Some("Email not found."),
               raised |-> FALSE]
         ELSE LET row == CHOOSE u \in result : TRUE
                  stored_hash == row.password_hash
              IN  IF stored_hash = None
                  THEN [db |-> db, user_info |-> None, error |-> None, raised |-> TRUE]
                  ELSE IF pbkdf2_verify(password, stored_hash[1])
                  THEN [db |-> db,
                        user_info |-> Some([name |-> row.name, role |-> row.role]),
                        error |-> None, raised |-> FALSE]
                  ELSE [db |-> db, user_info |-> None,
                        error |-> Some("Incorrect password."), raised |-> FALSE]

\* a reset_user_password that does not look at the UPDATE's rowcount
reset_user_password_without_rowcount(db, email, new_password, salt, fault) ==
    IF fault # 0 THEN [db |-> db, ok |-> FALSE, msg |-> DatabaseError]
    ELSE [db |-> [db EXCEPT !.users =
                     {IF u.email = email
                      THEN [u EXCEPT !.password_hash =
                                        Some(hash_password(new_password, salt))]
                      ELSE u : u \in @}],
          ok |-> TRUE, msg |-> "Password reset successfully."]

\* reset_user_password; fault 1: the UPDATE raises, 2: commit() raises
reset_user_password(db, email, new_password, salt, fault) ==
    LET password_hash == hash_password(new_password, salt)
        rowcount == Cardinality(UserRows(db, email))
        updated == {IF u.email = email
                    THEN [u EXCEPT !.password_hash = Some(password_hash)]
                    ELSE u : u \in db.users}
    IN  IF fault = 1 THEN [db |-> db, ok |-> FALSE, msg |-> DatabaseError]
        ELSE IF rowcount = 0 THEN [db |-> db, ok |-> FALSE, msg |-> "User not found."]
        ELSE IF fault # 0 THEN [db |-> db, ok |-> FALSE, msg |-> DatabaseError]
        ELSE [db |-> [db EXCEPT !.users = updated], ok |-> TRUE,
              msg |-> "Password reset successfully."]

\* a save_user that upserts whether or not it was given a password
save_user_always_upsert(db, email, name, password, role, salt, fault) ==
    IF fault # 0 THEN [db |-> db, ok |-> FALSE, msg |-> DatabaseError]
    ELSE [db |-> [db EXCEPT !.users = InsertOrReplaceUser(@,
                     [email |-> email, name |-> name, role |-> role,
                      password_hash |-> IF Truthy(password)
                                        THEN Some(hash_password(password[1], salt))
                                        ELSE None])],
          ok |-> TRUE, msg |-> "User saved successfully."]

\* save_user; password is None, Some(<<>>) or Some(text)
save_user(db, email, name, password, role, salt, fault) ==
    LET password_hash == IF Truthy(password)
                         THEN Some(hash_password(password[1], salt)) ELSE None
        written ==
            IF Truthy(password)
            THEN InsertOrReplaceUser(db.users,
                     [email |-> email, name |-> name, role |-> role,
                      password_hash |-> password_hash])
            ELSE {IF u.email = email THEN [u EXCEPT !.name = name, !.role = role]
                  ELSE u : u \in db.users}
    IN  IF fault # 0 THEN [db |-> db, ok |-> FALSE, msg |-> DatabaseError]
        ELSE [db |-> [db EXCEPT !.users = written], ok |-> TRUE,
              msg |-> "User saved successfully."]

\* get_project_title_for_student: the title, or None (also on sqlite3.Error)
get_project_title_for_student(db, email, fault) ==
    LET result == {m \in db.student_project_mapping : m.student_email = email} IN
    IF fault # 0 \/ result = {} THEN None
    ELSE Some((CHOOSE m \in result : TRUE).project_title)

\* a title resolution that never consults student_project_mapping
ResolveTitle_without_mapping(db, email, project_title, lookup_fault) ==
    IF Truthy(project_title) THEN project_title[1] ELSE NoProjectAssigned

\* the title save_query stores: the caller's, else the mapping's, else the sentinel
ResolveTitle(db, email, project_title, lookup_fault) ==
    IF Truthy(project_title) THEN project_title[1]
    ELSE LET looked == get_project_title_for_student(db, email, lookup_fault)
         IN  IF Truthy(looked) THEN looked[1] ELSE NoProjectAssigned

\* a save_query that inserts without looking for the triple
save_query_without_lookup(db, email, name, project_title, question, response, timestamp, feedback_rating, query_id, lookup_fault, fault) ==
    LET row == [query_id |-> query_id, email |-> email, name |-> name,
                project_title |-> ResolveTitle(db, email, project_title, lookup_fault),
                question |-> question, response |-> response,
                timestamp |-> timestamp, feedback_rating |-> feedback_rating]
    IN  IF fault # 0 THEN [db |-> db, shown |-> TRUE, inserted |-> FALSE]
        ELSE [db |-> [db EXCEPT !.queries = @ \cup {row}], shown |-> FALSE,
              inserted |-> TRUE]

\* save_query returns nothing; `shown` is its st.error on sqlite3.Error
save_query(db, email, name, project_title, question, response, timestamp, feedback_rating, query_id, lookup_fault, fault) ==
    LET title == ResolveTitle(db, email, project_title, lookup_fault)
        found == {q \in db.queries : /\ q.email = email
                                     /\ q.question = question
                                     /\ q.timestamp = timestamp}
        row == [query_id |-> query_id, email |-> email, name |-> name,
                project_title |-> title, question |-> question,
                response |-> response, timestamp |-> timestamp,
                feedback_rating |-> feedback_rating]
    IN  IF fault # 0 THEN [db |-> db, shown |-> TRUE, inserted |-> FALSE]
        ELSE IF found # {} THEN [db |-> db, shown |-> FALSE, inserted |-> FALSE]
        ELSE [db |-> [db EXCEPT !.queries = @ \cup {row}], shown |-> FALSE,
              inserted |-> TRUE]

\* a save_project whose third statement is missing
save_project_statements_without_mapping(db, email, project_title, timestamp, project_id, k) ==
    LET s1 == [db EXCEPT !.projects = @ \cup
                  {[project_id |-> project_id, email |-> email,
                    project_title |-> project_title, timestamp |-> timestamp]}]
        s2 == [s1 EXCEPT !.student_project_map = @ \cup
                  {[student_id |-> email, project_id |-> project_id,
                    timestamp |-> timestamp]}]
    IN  CASE k = 0 -> db [] k = 1 -> s1 [] OTHER -> s2

\* the connection's view after the first k statements of save_project
save_project_statements(db, email, project_title, timestamp, project_id, k) ==
    LET s1 == [db EXCEPT !.projects = @ \cup
                  {[project_id |-> project_id, email |-> email,
                    project_title |-> project_title, timestamp |-> timestamp]}]
        s2 == [s1 EXCEPT !.student_project_map = @ \cup
                  {[student_id |-> email, project_id |-> project_id,
                    timestamp |-> timestamp]}]
        s3 == [s2 EXCEPT !.student_project_mapping =
                  {m \in @ : m.student_email # email} \cup
                  {[student_email |-> email, project_title |-> project_title,
                    mapped_timestamp |-> timestamp]}]
    IN  CASE k = 0 -> db [] k = 1 -> s1 [] k = 2 -> s2 [] OTHER -> s3

\* a save_project that commits after every statement (sqlite autocommit)
save_project_autocommit(db, email, project_title, timestamp, project_id, fault) ==
    IF fault # 0
    THEN [db |-> save_project_statements(db, email, project_title, timestamp,
                                         project_id, fault - 1),
          ok |-> FALSE, msg |-> DatabaseError]
    ELSE [db |-> save_project_statements(db, email, project_title, timestamp,
                                         project_id, 3),
          ok |-> TRUE, msg |-> "Project saved successfully."]

\* save_project; fault k in 1..3: statement k raises, 4: commit() raises
save_project(db, email, project_title, timestamp, project_id, fault) ==
    IF fault # 0 THEN [db |-> db, ok |-> FALSE, msg |-> DatabaseError]
    ELSE [db |-> save_project_statements(db, email, project_title, timestamp,
                                         project_id, 3),
          ok |-> TRUE, msg |-> "Project saved successfully."]

\* a delete_user whose cascade leaves the queries table alone
delete_user_statements_without_queries(db, email, k) ==
    LET s1 == [db EXCEPT !.users = {u \in @ : u.email # email}]
        s2 == [s1 EXCEPT !.student_project_mapping =
                            {m \in @ : m.student_email # email}]
        s4 == [s2 EXCEPT !.projects = {p \in @ : p.email # email}]
    IN  CASE k = 0 -> db [] k = 1 -> s1 [] k = 2 -> s2 [] k = 3 -> s2 [] OTHER -> s4

\* a delete_user whose cascade also deletes the student's student_project_map rows
delete_user_statements_with_map(db, email, k) ==
    LET s1 == [db EXCEPT !.users = {u \in @ : u.email # email}]
        s2 == [s1 EXCEPT !.student_project_mapping =
                            {m \in @ : m.student_email # email}]
        s3 == [s2 EXCEPT !.queries = {q \in @ : q.email # email}]
        s4 == [s3 EXCEPT !.projects = {p \in @ : p.email # email},
                         !.student_project_map = {m \in @ : m.student_id # email}]
    IN  CASE k = 0 -> db [] k = 1 -> s1 [] k = 2 -> s2 [] k = 3 -> s3 [] OTHER -> s4

\* the connection's view after the first k DELETE statements of delete_user
delete_user_statements(db, email, k) ==
    LET s1 == [db EXCEPT !.users = {u \in @ : u.email # email}]
        s2 == [s1 EXCEPT !.student_project_mapping =
                            {m \in @ : m.student_email # email}]
        s3 == [s2 EXCEPT !.queries = {q \in @ : q.email # email}]
        s4 == [s3 EXCEPT !.projects = {p \in @ : p.email # email}]
    IN  CASE k = 0 -> db [] k = 1 -> s1 [] k = 2 -> s2 [] k = 3 -> s3 [] OTHER -> s4

\* delete_user; fault k in 1..4: DELETE k raises, 5: commit() raises
delete_user(db, email, fault) ==
    LET rowcount == Cardinality(UserRows(db, email)) IN
    IF fault = 1 THEN [db |-> db, ok |-> FALSE, msg |-> DatabaseError]
    ELSE IF rowcount = 0 THEN [db |-> db, ok |-> FALSE, msg |-> "User not found."]
    ELSE IF fault # 0 THEN [db |-> db, ok |-> FALSE, msg |-> DatabaseError]
    ELSE [db |-> delete_user_statements(db, email, 4), ok |-> TRUE,
          msg |-> "User deleted successfully."]

\* the Submit Rating handler's statement (lines 1032-1037): UPDATE queries SET
\* feedback_rating WHERE email AND timestamp; fault 1: the UPDATE raises,
\* 2: commit() raises, both caught by the handler's `except Exception`
submit_rating(db, email, timestamp, feedback_rating, fault) ==
    LET hit == {q \in db.queries : q.email = email /\ q.timestamp = timestamp}
        updated == {IF q \in hit THEN [q EXCEPT !.feedback_rating = Some(feedback_rating)]
                    ELSE q : q \in db.queries}
    IN  IF fault # 0 THEN [db |-> db, ok |-> FALSE, rowcount |-> 0]
        ELSE [db |-> [db EXCEPT !.queries = updated], ok |-> TRUE,
              rowcount |-> Cardinality(hit)]

\* get_available_projects: SELECT DISTINCT project_title FROM
\* student_project_mapping ORDER BY project_title; [] on sqlite3.Error
get_available_projects(db, fault) ==
    IF fault # 0 THEN <<>>
    ELSE SortTexts({m.project_title : m \in db.student_project_mapping})

----------------------------------------------------------------------------
(* Reports: the functions that only read.  A date is the number of its day;  *)
(* the model's clock has SecondsPerDay seconds in a day, so that timestamps  *)
(* of one date differ.  `fault` 1: sqlite3.connect raises sqlite3.Error;     *)
(* 2: the SELECT raises.                                                     *)

\* DATE(timestamp), and date.strftime("%Y-%m-%d"): dates compare as their days do
Date(timestamp) == timestamp \div SecondsPerDay

\* 'All Projects'
AllProjects == <<"A","l","l"," ","P","r","o","j","e","c","t","s">>

\* the SELECT list of both exports
QueryLogColumns ==
    <<"email", "name", "project_title", "question", "response", "timestamp",
      "feedback_rating">>

SelectColumns(q) ==
    [email |-> q.email, name |-> q.name, project_title |-> q.project_title,
     question |-> q.question, response |-> q.response, timestamp |-> q.timestamp,
     feedback_rating |-> q.feedback_rating]

\* ORDER BY timestamp DESC.  Rows of one timestamp come as the table scan
\* yields them, in the order of their insertion (here: of their identifiers);
\* the same statement on the same database gives the same order.
RECURSIVE OrderByTimestampDesc(_)
OrderByTimestampDesc(rows) ==
    IF rows = {} THEN <<>>
    ELSE LET first == CHOOSE r \in rows : \A o \in rows \ {r} :
                         \/ r.timestamp > o.timestamp
                         \/ r.timestamp = o.timestamp /\ r.query_id < o.query_id
         IN  <<first>> \o OrderByTimestampDesc(rows \ {first})

\* an export that compares the timestamp's date with date_to exclusively
export_query_logs_to_csv_before_date_to(db, student_email, project_filter, date_from, date_to, fault) ==
    LET matching == {q \in db.queries :
                        /\ Truthy(student_email) => q.email = student_email[1]
                        /\ (Truthy(project_filter) /\ project_filter[1] # AllProjects)
                              => q.project_title = project_filter[1]
                        /\ date_from # None => Date(q.timestamp) >= date_from[1]
                        /\ date_to # None => Date(q.timestamp) < date_to[1]}
        ordered == OrderByTimestampDesc(matching)
        query_logs == [i \in 1..Len(ordered) |-> SelectColumns(ordered[i])]
    IN  IF fault = 1 THEN [data |-> None, raised |-> FALSE]
        ELSE IF fault # 0 THEN [data |-> None, raised |-> TRUE]
        ELSE IF query_logs # <<>>
        THEN [data |-> Some([header |-> QueryLogColumns, rows |-> query_logs]),
              raised |-> FALSE]
        ELSE [data |-> None, raised |-> FALSE]

\* export_query_logs_to_csv: `data` is None or the header and the data rows of
\* DataFrame.to_csv(index=False), each row by its seven column values (the
\* encoding of a cell as text is not modelled).  pandas raises its own
\* DatabaseError when the SELECT fails, which `except sqlite3.Error` lets pass.
export_query_logs_to_csv(db, student_email, project_filter, date_from, date_to, fault) ==
    LET matching == {q \in db.queries :
                        /\ Truthy(student_email) => q.email = student_email[1]
                        /\ (Truthy(project_filter) /\ project_filter[1] # AllProjects)
                              => q.project_title = project_filter[1]
                        /\ date_from # None => Date(q.timestamp) >= date_from[1]
                        /\ date_to # None => Date(q.timestamp) <= date_to[1]}
        ordered == OrderByTimestampDesc(matching)
        query_logs == [i \in 1..Len(ordered) |-> SelectColumns(ordered[i])]
    IN  IF fault = 1 THEN [data |-> None, raised |-> FALSE]
        ELSE IF fault # 0 THEN [data |-> None, raised |-> TRUE]
        ELSE IF query_logs # <<>>
        THEN [data |-> Some([header |-> QueryLogColumns, rows |-> query_logs]),
              raised |-> FALSE]
        ELSE [data |-> None, raised |-> FALSE]

\* text[:limit] + "..." if len(text) > limit else text
Shorten(text, limit) ==
    IF Len(text) > limit THEN SubSeq(text, 1, limit) \o "..." ELSE text

PdfHeader == <<"Email", "Name", "Project", "Question", "Response", "Timestamp", "Rating">>

\* the table row the PDF shows for a row of the query result
PdfRow(row) ==
    [email |-> row.email, name |-> row.name, project_title |-> row.project_title,
     question |-> Shorten(row.question, 50), response |-> Shorten(row.response, 100),
     timestamp |-> row.timestamp,
     rating |-> [text |-> IF row.feedback_rating # None THEN "str(feedback_rating)"
                          ELSE "Not rated",
                 of |-> row.feedback_rating]]

\* a PDF export that does not apply the student_email filter
export_query_logs_to_pdf_of_all_students(db, student_email, project_filter, date_from, date_to, fault, render_fault) ==
    LET matching == {q \in db.queries :
                        /\ (Truthy(project_filter) /\ project_filter[1] # AllProjects)
                              => q.project_title = project_filter[1]
                        /\ date_from # None => Date(q.timestamp) >= date_from[1]
                        /\ date_to # None => Date(q.timestamp) <= date_to[1]}
        ordered == OrderByTimestampDesc(matching)
        data == <<PdfHeader>> \o [i \in 1..Len(ordered) |-> PdfRow(SelectColumns(ordered[i]))]
    IN  IF fault = 1 THEN [data |-> None, raised |-> FALSE]
        ELSE IF fault # 0 THEN [data |-> None, raised |-> TRUE]
        ELSE IF ordered = <<>> \/ render_fault THEN [data |-> None, raised |-> FALSE]
        ELSE [data |-> Some(data), raised |-> FALSE]

\* export_query_logs_to_pdf: `data` is None or the table the PDF is built from
\* (its header row first); render_fault: building the document raises
export_query_logs_to_pdf(db, student_email, project_filter, date_from, date_to, fault, render_fault) ==
    LET matching == {q \in db.queries :
                        /\ Truthy(student_email) => q.email = student_email[1]
                        /\ (Truthy(project_filter) /\ project_filter[1] # AllProjects)
                              => q.project_title = project_filter[1]
                        /\ date_from # None => Date(q.timestamp) >= date_from[1]
                        /\ date_to # None => Date(q.timestamp) <= date_to[1]}
        ordered == OrderByTimestampDesc(matching)
        data == <<PdfHeader>> \o [i \in 1..Len(ordered) |-> PdfRow(SelectColumns(ordered[i]))]
    IN  IF fault = 1 THEN [data |-> None, raised |-> FALSE]
        ELSE IF fault # 0 THEN [data |-> None, raised |-> TRUE]
        ELSE IF ordered = <<>> \/ render_fault THEN [data |-> None, raised |-> FALSE]
        ELSE [data |-> Some(data), raised |-> FALSE]

RECURSIVE SumOfRatings(_)
SumOfRatings(rows) ==
    IF rows = {} THEN 0
    ELSE LET q == CHOOSE x \in rows : TRUE
         IN  q.feedback_rating[1] + SumOfRatings(rows \ {q})

\* round(total / count, 2) as a number of hundredths.  Below 8 ratings no
\* average lies halfway between two hundredths, so the nearest one is meant.
RoundedAverage(total, count) == (200 * total + count) \div (2 * count)

\* a get_dashboard_stats whose average counts the unrated rows as 0
get_dashboard_stats_over_all_rows(db, fault) ==
    LET rated == {q \in db.queries : q.feedback_rating # None}
        total == SumOfRatings(rated)
    IN  IF fault # 0
        THEN [total_students |-> 0, total_projects |-> 0, total_queries |-> 0,
              avg_rating |-> None]
        ELSE [total_students |-> Cardinality({u.email : u \in
                                     {x \in db.users : x.role = Student}}),
              total_projects |-> Cardinality({m.project_title :
                                     m \in db.student_project_mapping}),
              total_queries |-> Cardinality(db.queries),
              avg_ratings |-> IF db.queries # {} /\ total # 0
                              THEN Some(RoundedAverage(total, Cardinality(db.queries)))
                              ELSE None]

\* get_dashboard_stats: avg_ratings is None or Some(hundredths); after an
\* sqlite3.Error the dictionary has the key avg_rating instead (line 293)
get_dashboard_stats(db, fault) ==
    LET rated == {q \in db.queries : q.feedback_rating # None}
        total == SumOfRatings(rated)
        \* AVG(...) is NULL without a row, and `if avg_rating` is false for NULL and 0.0
        avg_rating == IF rated = {} THEN None ELSE Some([total |-> total,
                                                        count |-> Cardinality(rated)])
    IN  IF fault # 0
        THEN [total_students |-> 0, total_projects |-> 0, total_queries |-> 0,
              avg_rating |-> None]
        ELSE [total_students |-> Cardinality({u.email : u \in
                                     {x \in db.users : x.role = Student}}),
              total_projects |-> Cardinality({m.project_title :
                                     m \in db.student_project_mapping}),
              total_queries |-> Cardinality(db.queries),
              avg_ratings |-> IF avg_rating # None /\ avg_rating[1].total # 0
                              THEN Some(RoundedAverage(avg_rating[1].total,
                                                       avg_rating[1].count))
                              ELSE None]

----------------------------------------------------------------------------
(* CSV imports.  An uploaded file is modelled as csv.DictReader and           *)
(* pandas.read_csv present it: the header's column names and the rows, each  *)
(* cell Some(raw text) or None when the row has no such cell.                *)

RequiredUserColumns == {"email", "name", "role"}
RequiredMappingColumns == {"student_id", "project_title"}

ErrorProcessingCsv == "Error processing CSV"
ErrorProcessingMapping == "Error processing mapping file"

\* the loop of bulk_register_users from row i on; `working` is the users table
\* as the open connection sees it; the INSERT of row `fault` raises
RECURSIVE bulk_register_rows(_, _, _, _, _, _)
bulk_register_rows(working, rows, i, salts, fault, users_added) ==
    IF i > Len(rows)
    THEN [users |-> working, failed |-> FALSE, msg |-> "", cite |-> None,
          at |-> 0, users_added |-> users_added]
    ELSE LET row == rows[i] IN
         IF row.email = None \/ row.name = None \/ row.role = None
         THEN \* None.strip() raises AttributeError, caught by `except Exception`
              [users |-> working, failed |-> TRUE, msg |-> ErrorProcessingCsv,
               cite |-> None, at |-> i, users_added |-> users_added]
         ELSE LET email == Strip(row.email[1])
                  name == Strip(row.name[1])
                  role == Strip(row.role[1])
                  reject(m) == [users |-> working, failed |-> TRUE, msg |-> m,
                                cite |-> Some(email), at |-> i,
                                users_added |-> users_added]
                  password_hash == hash_password(default123, salts[i])
                  inserted == InsertOrIgnoreUser(working,
                                  [email |-> email, name |-> name, role |-> role,
                                   password_hash |-> Some(password_hash)])
                  rowcount == IF inserted = working THEN 0 ELSE 1
              IN  IF email = <<>> \/ name = <<>> \/ role = <<>>
                  THEN reject("Missing data in row")
                  ELSE IF ~is_valid_email(email)
                  THEN reject("Invalid email format")
                  ELSE IF role \notin {Student, Admin}
                  THEN reject("Invalid role for")
                  ELSE IF fault = i
                  THEN [users |-> working, failed |-> TRUE,
                        msg |-> ErrorProcessingCsv, cite |-> None, at |-> i,
                        users_added |-> users_added]
                  ELSE bulk_register_rows(inserted, rows, i + 1, salts, fault,
                                          users_added + rowcount)

\* a bulk_register_users that commits what it inserted before it rejects a row
bulk_register_users_commit_on_reject(db, csv, salts, fault) ==
    LET r == bulk_register_rows(db.users, csv.rows, 1, salts, fault, 0) IN
    IF ~(RequiredUserColumns \subseteq csv.fieldnames)
    THEN [db |-> db, ok |-> FALSE, msg |-> "CSV must contain columns",
          cite |-> None, at |-> 0, users_added |-> 0]
    ELSE IF r.failed \/ fault = Len(csv.rows) + 1
    THEN [db |-> [db EXCEPT !.users = r.users], ok |-> FALSE,
          msg |-> IF r.failed THEN r.msg ELSE ErrorProcessingCsv,
          cite |-> r.cite, at |-> r.at, users_added |-> 0]
    ELSE [db |-> [db EXCEPT !.users = r.users], ok |-> TRUE,
          msg |-> "users registered successfully!", cite |-> None, at |-> 0,
          users_added |-> r.users_added]

\* a bulk_register_users that counts the rows it read, not the rows it inserted
bulk_register_users_counting_rows(db, csv, salts, fault) ==
    LET r == bulk_register_rows(db.users, csv.rows, 1, salts, fault, 0) IN
    IF ~(RequiredUserColumns \subseteq csv.fieldnames)
    THEN [db |-> db, ok |-> FALSE, msg |-> "CSV must contain columns",
          cite |-> None, at |-> 0, users_added |-> 0]
    ELSE IF r.failed \/ fault = Len(csv.rows) + 1
    THEN [db |-> db, ok |-> FALSE,
          msg |-> IF r.failed THEN r.msg ELSE ErrorProcessingCsv,
          cite |-> r.cite, at |-> r.at, users_added |-> 0]
    ELSE [db |-> [db EXCEPT !.users = r.users], ok |-> TRUE,
          msg |-> "users registered successfully!", cite |-> None, at |-> 0,
          users_added |-> Len(csv.rows)]

\* bulk_register_users; fault k: the INSERT of row k raises, Len+1: commit() raises.
\* A rejected row returns without commit(): the connection's inserts are rolled back.
bulk_register_users(db, csv, salts, fault) ==
    LET r == bulk_register_rows(db.users, csv.rows, 1, salts, fault, 0) IN
    IF ~(RequiredUserColumns \subseteq csv.fieldnames)
    THEN [db |-> db, ok |-> FALSE, msg |-> "CSV must contain columns",
          cite |-> None, at |-> 0, users_added |-> 0]
    ELSE IF r.failed \/ fault = Len(csv.rows) + 1
    THEN [db |-> db, ok |-> FALSE,
          msg |-> IF r.failed THEN r.msg ELSE ErrorProcessingCsv,
          cite |-> r.cite, at |-> r.at, users_added |-> 0]
    ELSE [db |-> [db EXCEPT !.users = r.users], ok |-> TRUE,
          msg |-> "users registered successfully!", cite |-> None, at |-> 0,
          users_added |-> r.users_added]

\* INSERT OR IGNORE INTO projects: project_id is the primary key
InsertOrIgnoreProject(rows, row) ==
    IF \E p \in rows : p.project_id = row.project_id THEN rows ELSE rows \cup {row}

\* the loop of save_student_project_mapping from row i on; row i draws the
\* identifier first_id + i - 1 from uuid4
RECURSIVE mapping_rows(_, _, _, _, _, _)
mapping_rows(working, rows, i, timestamp, first_id, fault) ==
    IF i > Len(rows)
    THEN [db |-> working, failed |-> FALSE, msg |-> "", cite |-> None,
          mappings_added |-> Len(rows)]
    ELSE LET student_email == Strip(rows[i].student_id[1])
             project_title == Strip(rows[i].project_title[1])
             s1 == [working EXCEPT !.student_project_mapping =
                       {m \in @ : m.student_email # student_email} \cup
                       {[student_email |-> student_email,
                         project_title |-> project_title,
                         mapped_timestamp |-> timestamp]}]
             s2 == [s1 EXCEPT !.projects = InsertOrIgnoreProject(@,
                       [project_id |-> first_id + i - 1, email |-> student_email,
                        project_title |-> project_title, timestamp |-> timestamp])]
         IN  IF ~is_valid_email(student_email)
             THEN [db |-> working, failed |-> TRUE, msg |-> "Invalid email format",
                   cite |-> Some(student_email), mappings_added |-> i - 1]
             ELSE IF fault = i
             THEN [db |-> working, failed |-> TRUE, msg |-> ErrorProcessingMapping,
                   cite |-> None, mappings_added |-> i - 1]
             ELSE mapping_rows(s2, rows, i + 1, timestamp, first_id, fault)

\* a save_student_project_mapping that commits the rows written before a rejected one
save_student_project_mapping_commit_on_reject(db, csv, timestamp, first_id, fault) ==
    LET reject(m) == [db |-> db, ok |-> FALSE, msg |-> m, cite |-> None,
                      mappings_added |-> 0]
    IN  IF csv.columns = {}
        THEN reject(ErrorProcessingMapping)
        ELSE IF ~(RequiredMappingColumns \subseteq csv.columns)
        THEN reject("CSV must contain columns")
        ELSE IF csv.rows = <<>>
        THEN reject("CSV file is empty.")
        ELSE IF \E i \in 1..Len(csv.rows) :
                   csv.rows[i].student_id = None \/ csv.rows[i].project_title = None
        THEN reject("CSV contains missing values in required columns.")
        ELSE LET r == mapping_rows(db, csv.rows, 1, timestamp, first_id, fault) IN
             IF r.failed THEN [db |-> r.db, ok |-> FALSE, msg |-> r.msg,
                               cite |-> r.cite, mappings_added |-> 0]
             ELSE IF fault = Len(csv.rows) + 1 THEN reject(ErrorProcessingMapping)
             ELSE [db |-> r.db, ok |-> TRUE,
                   msg |-> "student-project mappings saved successfully!",
                   cite |-> None, mappings_added |-> r.mappings_added]

\* save_student_project_mapping; fault k: a statement of row k raises,
\* Len+1: commit() raises
save_student_project_mapping(db, csv, timestamp, first_id, fault) ==
    LET reject(m) == [db |-> db, ok |-> FALSE, msg |-> m, cite |-> None,
                      mappings_added |-> 0]
    IN  IF csv.columns = {}
        THEN reject(ErrorProcessingMapping)   \* pandas EmptyDataError
        ELSE IF ~(RequiredMappingColumns \subseteq csv.columns)
        THEN reject("CSV must contain columns")
        ELSE IF csv.rows = <<>>
        THEN reject("CSV file is empty.")
        ELSE IF \E i \in 1..Len(csv.rows) :
                   csv.rows[i].student_id = None \/ csv.rows[i].project_title = None
        THEN reject("CSV contains missing values in required columns.")
        ELSE LET r == mapping_rows(db, csv.rows, 1, timestamp, first_id, fault) IN
             IF r.failed THEN [db |-> db, ok |-> FALSE, msg |-> r.msg,
                               cite |-> r.cite, mappings_added |-> 0]
             ELSE IF fault = Len(csv.rows) + 1 THEN reject(ErrorProcessingMapping)
             ELSE [db |-> r.db, ok |-> TRUE,
                   msg |-> "student-project mappings saved successfully!",
                   cite |-> None, mappings_added |-> r.mappings_added]

----------------------------------------------------------------------------
(* Inputs *)

UserRow(e, n, r) == [email |-> Some(e), name |-> Some(n), role |-> Some(r)]

\* the files offered to bulk_register_users
UserCsvs ==
    { [fieldnames |-> RequiredUserColumns, rows |-> rows] :
        rows \in { <<UserRow(PaddedS1, Alice, Student)>>,
                   <<UserRow(S2, Alice, Student), UserRow(AdminEmail, Bob, Student)>>,
                   <<UserRow(S2, Alice, Student), UserRow(S2, Bob, Admin)>>,
                   <<UserRow(S2, Alice, Student), UserRow(BadEmail, Bob, Student)>>,
                   <<UserRow(S2, Alice, Student), UserRow(S1, Bob, Guest)>>,
                   <<UserRow(S2, Alice, Admin), UserRow(S1, <<" ">>, Student)>>,
                   <<UserRow(S2, Bob, Student), UserRow(<<>>, Bob, Student)>>,
                   <<UserRow(S2, Bob, Student),
                     [email |-> Some(S1), name |-> Some(Bob), role |-> None]>> } }
    \cup { [fieldnames |-> {"email", "name"},
            rows |-> <<[email |-> Some(S2), name |-> Some(Bob), role |-> None]>>] }

MappingRow(e, t) == [student_id |-> Some(e), project_title |-> Some(t)]

\* the files offered to save_student_project_mapping
MappingCsvs ==
    { [columns |-> RequiredMappingColumns, rows |-> rows] :
        rows \in { <<MappingRow(PaddedS1, AITutor)>>,
                   <<MappingRow(S1, DBTitle), MappingRow(S1, AITutor)>>,
                   <<MappingRow(AdminEmail, DBTitle), MappingRow(BadEmail, DBTitle)>>,
                   <<MappingRow(S1, <<" ">>)>>,
                   <<MappingRow(S1, DBTitle),
                     [student_id |-> Some(S1), project_title |-> None]>>,
                   <<>> } }
    \cup { [columns |-> {"student_id"}, rows |-> <<>>],
           [columns |-> {}, rows |-> <<>>] }

----------------------------------------------------------------------------
(* State *)

\* what a function returned, without the database
Returned(r) == [f \in DOMAIN r \ {"db"} |-> r[f]]

\* the latest call: the function, the email it was given (None: a file), what
\* else tells its cases apart, and what it returned
Call(op, email, how, ret) == [op |-> op, email |-> email, how |-> how, ret |-> ret]

Commit(db) ==
    /\ users' = db.users
    /\ projects' = db.projects
    /\ queries' = db.queries
    /\ student_project_mapping' = db.student_project_mapping
    /\ student_project_map' = db.student_project_map

\* history: the title of the latest successful save_project or imported row of
\* each student since the student's last successful delete_user
Assigned(history, email, title) ==
    {h \in history : h.email # email} \cup {[email |-> email, title |-> title]}

RECURSIVE AssignedRows(_, _, _)
AssignedRows(history, rows, i) ==
    IF i > Len(rows) THEN history
    ELSE AssignedRows(Assigned(history, Strip(rows[i].student_id[1]),
                               Strip(rows[i].project_title[1])), rows, i + 1)

\* the connection an operation opened, once the operation has returned
Connection(closes) == IF closes THEN "closed" ELSE "open"

\* whether the path an operation took called conn.close().  No `except` block
\* closes the connection, and the early returns of the two imports do not.
verify_user_closes(fault) == fault = 0
reset_user_password_closes(r) == r.ok \/ r.msg = "User not found."
save_user_closes(r) == r.ok
save_query_closes(lookup_fault, fault) == lookup_fault = 0 /\ fault = 0
save_project_closes(r) == r.ok
delete_user_closes(r) == r.ok \/ r.msg = "User not found."
bulk_register_users_closes(r) == r.ok
save_student_project_mapping_closes(r) == r.ok

\* passlib draws a random salt for every hash: no two hashes share one.  The
\* i-th hash of the current call gets the salt <<number of the call, i>>.
FreshSalt(i) == <<steps + 1, i>>

\* the database a run of the script finds: none, or one older than password_hash
Init ==
    \E file \in {EmptyFile, LegacyFile} :
        LET db == init_db(file, <<0, 1>>) IN
        /\ users = db.users
        /\ projects = db.projects
        /\ queries = db.queries
        /\ student_project_mapping = db.student_project_mapping
        /\ student_project_map = db.student_project_map
        /\ uuid4 = 0
        /\ now = 1
        /\ steps = 0
        /\ last = Call("init_db", None, None, <<>>)
        /\ current_project = {}
        /\ mapped_titles = {}
        /\ connection = "closed"
        /\ issued = <<>>

\* the clock reaches the next second
Tick ==
    /\ now < MaxClock
    /\ now' = now + 1
    /\ UNCHANGED <<tables, uuid4, steps, last, current_project, mapped_titles,
                   connection, issued>>

\* the script is run again (line 646)
InitDb ==
    /\ steps < MaxSteps
    /\ Commit(init_db(DB, FreshSalt(1)))
    /\ steps' = steps + 1
    /\ last' = Call("init_db", None, None, <<>>)
    /\ connection' = "closed"
    /\ UNCHANGED <<uuid4, now, current_project, mapped_titles, issued>>

VerifyUser ==
    /\ steps < MaxSteps
    /\ \E email \in Emails, password \in Passwords, fault \in 0..1 :
        LET r == verify_user(DB, email, password, fault) IN
        /\ Commit(r.db)
        /\ last' = Call("verify_user", Some(email), None, Returned(r))
        /\ connection' = Connection(verify_user_closes(fault))
    /\ steps' = steps + 1
    /\ UNCHANGED <<uuid4, now, current_project, mapped_titles, issued>>

ResetUserPassword ==
    /\ steps < MaxSteps
    /\ \E email \in Emails, new_password \in Passwords, fault \in 0..2 :
        LET r == reset_user_password(DB, email, new_password, FreshSalt(1), fault) IN
        /\ Commit(r.db)
        /\ last' = Call("reset_user_password", Some(email), None, Returned(r))
        /\ connection' = Connection(reset_user_password_closes(r))
    /\ steps' = steps + 1
    /\ UNCHANGED <<uuid4, now, current_project, mapped_titles, issued>>

SaveUser ==
    /\ steps < MaxSteps
    /\ \E email \in Emails, profile \in Profiles,
          password \in {None, Some(<<>>), Some(Pw1)}, fault \in 0..1 :
        LET name == profile.name
            role == profile.role
            r == save_user(DB, email, name, password, role, FreshSalt(1), fault) IN
        /\ Commit(r.db)
        /\ last' = Call("save_user", Some(email),
                         IF Truthy(password) THEN "password" ELSE "no password",
                         Returned(r))
        /\ connection' = Connection(save_user_closes(r))
    /\ steps' = steps + 1
    /\ UNCHANGED <<uuid4, now, current_project, mapped_titles, issued>>

SaveQuery ==
    /\ steps < MaxSteps
    /\ \E email \in Emails, name \in {Alice}, question \in Questions,
          response \in Responses,
          project_title \in {None, Some(<<>>), Some(DBTitle)},
          faults \in {<<0, 0>>, <<1, 0>>, <<0, 1>>} :
        LET lookup_fault == faults[1]
            fault == faults[2]
            r == save_query(DB, email, name, project_title, question, response,
                            now, None, uuid4 + 1, lookup_fault, fault) IN
        /\ Commit(r.db)
        /\ uuid4' = IF r.inserted THEN uuid4 + 1 ELSE uuid4
        /\ last' = Call("save_query", Some(email),
                         IF Truthy(project_title) THEN "title" ELSE "no title",
                         Returned(r))
        /\ connection' = Connection(save_query_closes(lookup_fault, fault))
    /\ steps' = steps + 1
    /\ UNCHANGED <<now, current_project, mapped_titles, issued>>

SaveProject ==
    /\ steps < MaxSteps
    /\ \E email \in Emails, project_title \in Titles, fault \in 0..4 :
        LET r == save_project(DB, email, project_title, now, uuid4 + 1, fault) IN
        /\ Commit(r.db)
        /\ uuid4' = IF r.ok THEN uuid4 + 1 ELSE uuid4
        /\ current_project' = IF r.ok THEN Assigned(current_project, email, project_title)
                              ELSE current_project
        /\ mapped_titles' = IF r.ok THEN mapped_titles \cup {project_title}
                            ELSE mapped_titles
        /\ last' = Call("save_project", Some(email), None, Returned(r))
        /\ connection' = Connection(save_project_closes(r))
    /\ steps' = steps + 1
    /\ UNCHANGED <<now, issued>>

DeleteUser ==
    /\ steps < MaxSteps
    /\ \E email \in Emails, fault \in 0..5 :
        LET r == delete_user(DB, email, fault) IN
        /\ Commit(r.db)
        /\ current_project' = IF r.ok THEN {h \in current_project : h.email # email}
                              ELSE current_project
        /\ last' = Call("delete_user", Some(email), None, Returned(r))
        /\ connection' = Connection(delete_user_closes(r))
    /\ steps' = steps + 1
    /\ UNCHANGED <<uuid4, now, mapped_titles, issued>>

\* the rating of the answer shown for the query submitted at `timestamp`
SubmitRating ==
    /\ steps < MaxSteps
    /\ \E email \in Emails, timestamp \in 1..now, feedback_rating \in FeedbackRatings,
          fault \in 0..1 :
        LET r == submit_rating(DB, email, timestamp, feedback_rating, fault) IN
        /\ Commit(r.db)
        /\ last' = Call("submit_rating", Some(email), None, Returned(r))
        /\ connection' = Connection(r.ok)
    /\ steps' = steps + 1
    /\ UNCHANGED <<uuid4, now, current_project, mapped_titles, issued>>

\* Register User handler (lines 730-741): new_role comes from a select box
RegisterUser ==
    /\ steps < MaxSteps
    /\ \E new_email \in {<<>>, S2, BadEmail, S1Newline}, new_password \in {<<>>, Pw1},
          fault \in 0..1 :
        LET r == IF new_email = <<>> \/ new_password = <<>>
                 THEN [db |-> DB, ok |-> FALSE,
                       msg |-> "Please fill in all fields for the new user."]
                 ELSE IF ~is_valid_email(new_email)
                 THEN [db |-> DB, ok |-> FALSE,
                       msg |-> "Please enter a valid email address."]
                 ELSE save_user(DB, new_email, Bob, Some(new_password), Student,
                                FreshSalt(1), fault)
            called == new_email # <<>> /\ new_password # <<>> /\ is_valid_email(new_email)
        IN
        /\ Commit(r.db)
        /\ last' = Call("register_user", Some(new_email), "password", Returned(r))
        /\ connection' = IF called THEN Connection(save_user_closes(r)) ELSE connection
    /\ steps' = steps + 1
    /\ UNCHANGED <<uuid4, now, current_project, mapped_titles, issued>>

BulkRegisterUsers ==
    /\ steps < MaxSteps
    /\ \E csv \in UserCsvs, fault \in 0..1 :
        LET salts == [i \in 1..Len(csv.rows) |-> FreshSalt(i)]
            r == bulk_register_users(DB, csv, salts,
                                     IF fault = 0 THEN 0 ELSE Len(csv.rows) + 1) IN
        /\ Commit(r.db)
        /\ last' = Call("bulk_register_users", None, None, Returned(r))
        /\ connection' = Connection(bulk_register_users_closes(r))
    /\ steps' = steps + 1
    /\ UNCHANGED <<uuid4, now, current_project, mapped_titles, issued>>

SaveStudentProjectMapping ==
    /\ steps < MaxSteps
    /\ \E csv \in MappingCsvs, fault \in 0..1 :
        LET r == save_student_project_mapping(DB, csv, now, uuid4 + 1,
                     IF fault = 0 THEN 0 ELSE Len(csv.rows) + 1) IN
        /\ Commit(r.db)
        /\ uuid4' = IF r.ok THEN uuid4 + Len(csv.rows) ELSE uuid4
        /\ current_project' = IF r.ok THEN AssignedRows(current_project, csv.rows, 1)
                              ELSE current_project
        /\ mapped_titles' =
              IF r.ok
              THEN mapped_titles \cup {Strip(csv.rows[i].project_title[1]) :
                                          i \in 1..Len(csv.rows)}
              ELSE mapped_titles
        /\ last' = Call("save_student_project_mapping", None, None, Returned(r))
        /\ connection' = Connection(save_student_project_mapping_closes(r))
    /\ steps' = steps + 1
    /\ UNCHANGED <<now, issued>>

Next ==
    \/ Tick
    \/ InitDb
    \/ VerifyUser
    \/ ResetUserPassword
    \/ SaveUser
    \/ SaveQuery
    \/ SaveProject
    \/ DeleteUser
    \/ SubmitRating
    \/ RegisterUser
    \/ BulkRegisterUsers
    \/ SaveStudentProjectMapping

Spec == Init /\ [][Next]_vars

----------------------------------------------------------------------------
(* Stored databases and the reports read from them.  A stored database is    *)
(* built with the functions above: users by bulk_register_users, mappings by *)
(* save_student_project_mapping, queries by save_query and submit_rating.    *)

\* who is registered and mapped: nobody but the administrator; one student;
\* two students of one project; three students of two projects
StoredUsers ==
    <<<<>>,
      <<UserRow(S1, Alice, Student)>>,
      <<UserRow(S1, Alice, Student), UserRow(S2, Bob, Student)>>,
      <<UserRow(S1, Alice, Student), UserRow(S2, Bob, Student),
        UserRow(S3, Bob, Student)>> >>

StoredMappings ==
    <<<<>>,
      <<MappingRow(S1, AITutor)>>,
      <<MappingRow(S1, AITutor), MappingRow(S2, AITutor)>>,
      <<MappingRow(S1, AITutor), MappingRow(S2, DBTitle), MappingRow(S3, AITutor)>> >>

People(k) ==
    LET seeded == init_db(EmptyFile, <<0, 1>>)
        csv == [fieldnames |-> RequiredUserColumns, rows |-> StoredUsers[k]]
        registered == bulk_register_users(seeded, csv,
                          [i \in 1..Len(csv.rows) |-> <<0, i + 1>>], 0).db
    IN  save_student_project_mapping(registered,
            [columns |-> RequiredMappingColumns, rows |-> StoredMappings[k]], 1, 1, 0).db

\* the (email, timestamp) of the queries a stored database may hold
QueryKeys ==
    <<[email |-> S1, timestamp |-> 1], [email |-> S2, timestamp |-> 1],
      [email |-> S1, timestamp |-> 2], [email |-> S2, timestamp |-> 2],
      [email |-> S1, timestamp |-> 3], [email |-> S2, timestamp |-> 3]>>

\* the title a query was stored with and the rating it got since
QueryOptions ==
    {[project_title |-> AITutor, feedback_rating |-> None],
     [project_title |-> AITutor, feedback_rating |-> Some(5)],
     [project_title |-> NoProjectAssigned, feedback_rating |-> Some(4)],
     [project_title |-> NoProjectAssigned, feedback_rating |-> Some(1)]}

\* db after the queries chosen by `chosen` (key number -> option) from key k on
RECURSIVE StoreQueries(_, _, _)
StoreQueries(db, chosen, k) ==
    IF k > Len(QueryKeys) THEN db
    ELSE IF k \notin DOMAIN chosen THEN StoreQueries(db, chosen, k + 1)
    ELSE LET key == QueryKeys[k]
             saved == save_query(db, key.email, Alice, Some(chosen[k].project_title),
                                 "q1", "r1", key.timestamp, None, 3 + k, 0, 0).db
             rated == IF chosen[k].feedback_rating = None THEN saved
                      ELSE submit_rating(saved, key.email, key.timestamp,
                                         chosen[k].feedback_rating[1], 0).db
         IN  StoreQueries(rated, chosen, k + 1)

\* three students, two mapped projects, ten queries of which four are rated
\* 5, 4, 3 and 2
RECURSIVE TenQueries(_, _)
TenQueries(db, i) ==
    IF i > 10 THEN db
    ELSE LET saved == save_query(db, S1, Alice, Some(AITutor), "q1", "r1", i, None,
                                 3 + i, 0, 0).db
             rated == IF i > 4 THEN saved ELSE submit_rating(saved, S1, i, 6 - i, 0).db
         IN  TenQueries(rated, i + 1)

StoredDatabases ==
    {StoreQueries(People(k), chosen, 1) :
        k \in 1..Len(StoredUsers),
        chosen \in UNION {[keys -> QueryOptions] :
                            keys \in {K \in SUBSET (1..Len(QueryKeys)) :
                                         Cardinality(K) <= MaxQueries}}}
    \cup {TenQueries(People(4), 1)}

InitStored ==
    \E db \in StoredDatabases :
        /\ users = db.users
        /\ projects = db.projects
        /\ queries = db.queries
        /\ student_project_mapping = db.student_project_mapping
        /\ student_project_map = db.student_project_map
        /\ uuid4 = 13
        /\ now = 10
        /\ steps = 0
        /\ last = Call("init_db", None, None, <<>>)
        /\ current_project = {[email |-> m.student_email, title |-> m.project_title] :
                                 m \in db.student_project_mapping}
        /\ mapped_titles = {m.project_title : m \in db.student_project_mapping}
        /\ connection = "closed"
        /\ issued = <<>>

\* the filters the export buttons pass (lines 850-984): a date range, a student
\* with a date range, a project or "All Projects" with a date range, a student
ExportFilters ==
    {[student_email |-> None, project_filter |-> None,
      date_from |-> Some(0), date_to |-> Some(0)],
     [student_email |-> Some(S1), project_filter |-> None,
      date_from |-> Some(1), date_to |-> Some(1)],
     [student_email |-> None, project_filter |-> Some(AllProjects),
      date_from |-> Some(0), date_to |-> Some(1)],
     [student_email |-> None, project_filter |-> Some(AITutor),
      date_from |-> Some(0), date_to |-> Some(1)],
     [student_email |-> Some(S2), project_filter |-> None,
      date_from |-> None, date_to |-> None]}

Read(op, how, r, closes) ==
    /\ steps = 0
    /\ steps' = 1
    /\ last' = Call(op, None, how, r)
    /\ connection' = Connection(closes)
    /\ UNCHANGED <<tables, uuid4, now, current_project, mapped_titles, issued>>

GetDashboardStats ==
    \E fault \in 0..1 :
        Read("get_dashboard_stats", [fault |-> fault],
             get_dashboard_stats(DB, fault), fault = 0)

GetAvailableProjects ==
    \E fault \in 0..1 :
        Read("get_available_projects", [fault |-> fault],
             [projects |-> get_available_projects(DB, fault)], fault = 0)

ExportQueryLogsToCsv ==
    \E f \in ExportFilters, fault \in 0..2 :
        Read("export_query_logs_to_csv", [filters |-> f, fault |-> fault],
             export_query_logs_to_csv(DB, f.student_email, f.project_filter,
                                      f.date_from, f.date_to, fault),
             fault = 0)

ExportQueryLogsToPdf ==
    \E f \in ExportFilters, fault \in 0..2, render_fault \in BOOLEAN :
        Read("export_query_logs_to_pdf",
             [filters |-> f, fault |-> fault, render_fault |-> render_fault],
             export_query_logs_to_pdf(DB, f.student_email, f.project_filter,
                                      f.date_from, f.date_to, fault, render_fault),
             fault = 0)

NextStored ==
    \/ GetDashboardStats
    \/ GetAvailableProjects
    \/ ExportQueryLogsToCsv
    \/ ExportQueryLogsToPdf

SpecStored == InitStored /\ [][NextStored]_vars

----------------------------------------------------------------------------

(* Advisory calls.  kyra_response is decorated with sleep_and_retry and      *)
(* limits(calls=CALLS, period=PERIOD) of the ratelimit package.  The `def`   *)
(* and its decorators are statements of the script, so every run of the      *)
(* script builds a new limiter before the Submit handler calls the function. *)

CALLS == 10
PERIOD == 60

\* RateLimitDecorator.__init__: the limiter built when the `def` is executed
RateLimitDecorator(clock) == [last_reset |-> clock, num_calls |-> 0]

\* one call through the wrapper of limits: the window is reset when the period
\* since last_reset has elapsed, the call is counted, and RateLimitException
\* is raised when the count exceeds the limit
limits(limiter, clock) ==
    LET period_remaining == PERIOD - (clock - limiter.last_reset)
        window == IF period_remaining <= 0 THEN RateLimitDecorator(clock) ELSE limiter
        counted == [window EXCEPT !.num_calls = @ + 1]
    IN  [limiter |-> counted, raised |-> counted.num_calls > CALLS,
         period_remaining |-> period_remaining]

\* sleep_and_retry: call; on RateLimitException sleep period_remaining and call
\* again.  `clock` is the time at which the call went through.
RECURSIVE sleep_and_retry(_, _)
sleep_and_retry(limiter, clock) ==
    LET attempt == limits(limiter, clock) IN
    IF attempt.raised
    THEN sleep_and_retry(attempt.limiter, clock + attempt.period_remaining)
    ELSE [limiter |-> attempt.limiter, clock |-> clock]

\* the database a first run of the script creates, at time 0
InitAdvisory ==
    LET db == init_db(EmptyFile, <<0, 1>>) IN
    /\ users = db.users
    /\ projects = db.projects
    /\ queries = db.queries
    /\ student_project_mapping = db.student_project_mapping
    /\ student_project_map = db.student_project_map
    /\ uuid4 = 0
    /\ now = 0
    /\ steps = 0
    /\ last = Call("init_db", None, None, <<>>)
    /\ current_project = {}
    /\ mapped_titles = {}
    /\ connection = "closed"
    /\ issued = <<>>

\* half a period passes
Wait ==
    /\ now + PERIOD \div 2 <= MaxWaits * (PERIOD \div 2)
    /\ now' = now + PERIOD \div 2
    /\ UNCHANGED <<tables, uuid4, steps, last, current_project, mapped_titles,
                   connection, issued>>

\* a run of the script in which Submit is pressed: the script's `def` builds
\* the limiter (lines 511-513), the handler calls kyra_response, which issues
\* the request once the limiter lets it through, and saves the query (lines
\* 1011-1014)
SubmitQuery ==
    /\ Len(issued) < MaxIssued
    /\ \E email \in Emails :
        LET call == sleep_and_retry(RateLimitDecorator(now), now)
            project_title == get_project_title_for_student(DB, email, 0)
            r == save_query(DB, email, Alice,
                            IF Truthy(project_title) THEN project_title
                            ELSE Some(NoProjectAssigned),
                            "q1", "r1", now, None, uuid4 + 1, 0, 0)
        IN
        /\ issued' = Append(issued, call.clock)
        /\ now' = call.clock
        /\ Commit(r.db)
        /\ uuid4' = IF r.inserted THEN uuid4 + 1 ELSE uuid4
        /\ last' = Call("kyra_response", Some(email), None,
                        [issued_at |-> call.clock, slept |-> call.clock - now,
                         num_calls |-> call.limiter.num_calls])
    /\ connection' = "closed"
    /\ UNCHANGED <<steps, current_project, mapped_titles>>

NextAdvisory ==
    \/ Wait
    \/ SubmitQuery

SpecAdvisory == InitAdvisory /\ [][NextAdvisory]_vars

----------------------------------------------------------------------------

(* Properties.  Each is stated for every reachable database and, where it    *)
(* is about one call, for every input of the bounded sets below; a call is   *)
(* taken without a storage fault unless the property is about faults.        *)

AllEmails == {AdminEmail, S1, S2, BadEmail}
OptionalPasswords == {None, Some(<<>>)} \cup {Some(p) : p \in Passwords}
OptionalTitles == {None, Some(<<>>)} \cup {Some(t) : t \in Titles}

\* no table of db holds a row keyed by email (student_project_map is not one
\* of the four the cascade covers)
NoRowKeyedBy(db, email) ==
    /\ \A u \in db.users : u.email # email
    /\ \A q \in db.queries : q.email # email
    /\ \A m \in db.student_project_mapping : m.student_email # email
    /\ \A p \in db.projects : p.email # email

\* C1: after a successful delete_user(e) no users, queries,
\* student_project_mapping or projects row is keyed by e, and the next
\* delete_user(e) fails with "User not found." and changes nothing.
C1_DeleteUserCascades ==
    /\ \A e \in AllEmails :
        LET r == delete_user(DB, e, 0) IN
        r.ok =>
            /\ NoRowKeyedBy(r.db, e)
            /\ LET again == delete_user(r.db, e, 0) IN
               /\ ~again.ok
               /\ again.msg = "User not found."
               /\ again.db = r.db
    /\ (last.op = "delete_user" /\ last.ret.ok) => NoRowKeyedBy(DB, last.email[1])

\* C1 witness: a user who had submitted a project has been deleted
C1_Witness ==
    /\ last.op = "delete_user"
    /\ last.ret.ok
    /\ \E m \in student_project_map : m.student_id = last.email[1]

\* C2: save_project is all-or-nothing.  Whatever statement fails, either the
\* new projects row, the student_project_map row of the same project_id and
\* the replaced student_project_mapping row are all committed, or the
\* database is as it was.
C2_SaveProjectAllOrNothing ==
    \A e \in Emails, t \in Titles, fault \in 0..4 :
        LET r == save_project(DB, e, t, now, uuid4 + 1, fault)
            p == [project_id |-> uuid4 + 1, email |-> e, project_title |-> t,
                  timestamp |-> now]
            m == [student_id |-> e, project_id |-> uuid4 + 1, timestamp |-> now]
            c == [student_email |-> e, project_title |-> t, mapped_timestamp |-> now]
        IN  \/ /\ r.ok
               /\ p \notin projects
               /\ r.db.projects = projects \cup {p}
               /\ r.db.student_project_map = student_project_map \cup {m}
               /\ r.db.student_project_mapping =
                      {x \in student_project_mapping : x.student_email # e} \cup {c}
               /\ r.db.users = users /\ r.db.queries = queries
            \/ /\ ~r.ok
               /\ r.db = DB

\* C2 witness: a save_project failed after an earlier one had succeeded
C2_Witness ==
    /\ last.op = "save_project"
    /\ ~last.ret.ok
    /\ projects # {}
    /\ \A p \in projects : \E m \in student_project_map : m.project_id = p.project_id

SameTriple(q, email, question, timestamp) ==
    q.email = email /\ q.question = question /\ q.timestamp = timestamp

\* C3: the queries table holds at most one row per (email, question,
\* timestamp), and a save_query of a triple already stored inserts nothing and
\* leaves every row as it was.
C3_QueriesDeduplicated ==
    /\ \A q1 \in queries : \A q2 \in queries :
          SameTriple(q1, q2.email, q2.question, q2.timestamp) => q1 = q2
    /\ \A e \in Emails, qu \in Questions, re \in Responses, t \in OptionalTitles :
          LET r == save_query(DB, e, Alice, t, qu, re, now, None, uuid4 + 1, 0, 0)
          IN  IF \E q \in queries : SameTriple(q, e, qu, now)
              THEN r.db = DB /\ ~r.inserted
              ELSE r.inserted /\ Cardinality(r.db.queries) = Cardinality(queries) + 1

\* C3 witness: a save_query found its triple stored and inserted nothing
C3_Witness ==
    /\ last.op = "save_query"
    /\ ~last.ret.inserted
    /\ ~last.ret.shown
    /\ \E q \in queries : q.email = last.email[1]

\* the first row of a file that the claim calls invalid: a cell empty once
\* stripped, a malformed email, or a role other than student and admin (0: none)
Cell(row, column) == Strip(row[column][1])

InvalidUserRow(row) ==
    \/ Cell(row, "email") = <<>> \/ Cell(row, "name") = <<>> \/ Cell(row, "role") = <<>>
    \/ ~is_valid_email(Cell(row, "email"))
    \/ Cell(row, "role") \notin {Student, Admin}

FirstInvalidUserRow(rows) ==
    IF \E i \in 1..Len(rows) : InvalidUserRow(rows[i])
    THEN CHOOSE i \in 1..Len(rows) :
            InvalidUserRow(rows[i]) /\ \A j \in 1..(i - 1) : ~InvalidUserRow(rows[j])
    ELSE 0

\* the files whose rows have all three cells
CompleteUserCsvs ==
    {csv \in UserCsvs :
        /\ RequiredUserColumns \subseteq csv.fieldnames
        /\ \A i \in 1..Len(csv.rows) :
              \A column \in RequiredUserColumns : csv.rows[i][column] # None}

BulkSalts(csv) == [i \in 1..Len(csv.rows) |-> FreshSalt(i)]

\* C4: when bulk_register_users meets an invalid row it returns a failure that
\* names that row (by its email), and the users table is as before the call.
C4_BulkRejectNamesRowAndRollsBack ==
    \A csv \in CompleteUserCsvs :
        LET i == FirstInvalidUserRow(csv.rows)
            r == bulk_register_users(DB, csv, BulkSalts(csv), 0)
        IN  i # 0 =>
              /\ ~r.ok
              /\ r.at = i
              /\ r.cite # None
              /\ r.cite[1] # <<>>
              /\ r.cite[1] = Cell(csv.rows[i], "email")
              /\ r.db = DB

\* C4, the half that holds: a rejected file leaves no row behind, also when
\* valid rows precede the rejected one, and the failure carries the email cell
\* of the first invalid row (which may be empty).
C4_RejectedBatchRollsBack ==
    \A csv \in CompleteUserCsvs :
        LET i == FirstInvalidUserRow(csv.rows)
            r == bulk_register_users(DB, csv, BulkSalts(csv), 0)
        IN  i # 0 =>
              /\ ~r.ok
              /\ r.at = i
              /\ r.cite = Some(Cell(csv.rows[i], "email"))
              /\ r.db = DB

\* C4 witness: a file was rejected at its second row
C4_Witness ==
    /\ last.op = "bulk_register_users"
    /\ ~last.ret.ok
    /\ last.ret.at = 2
    /\ last.ret.msg = "Invalid email format"
    /\ \A u \in users : u.email # S2

\* C5: verify_user has four outcomes, told apart by its return value, and
\* writes nothing: the row's name and role when the password verifies, "Email
\* not found." without a row, "Incorrect password." with a row whose hash the
\* password does not verify against, the database-error message on a fault.
C5_VerifyUserFourOutcomes ==
    \A e \in AllEmails, p \in Passwords, fault \in 0..1 :
        LET r == verify_user(DB, e, p, fault)
            rows == {u \in users : u.email = e}
            verifies(u) == u.password_hash # None
                           /\ pbkdf2_verify(p, u.password_hash[1])
        IN  /\ r.db = DB
            /\ ~r.raised
            /\ fault # 0 => r.user_info = None /\ r.error = Some(DatabaseError)
            /\ fault = 0 /\ rows = {} =>
                  r.user_info = None /\ r.error = Some("Email not found.")
            /\ fault = 0 /\ rows # {} =>
                  \A u \in rows :
                     IF verifies(u)
                     THEN /\ r.user_info = Some([name |-> u.name, role |-> u.role])
                          /\ r.error = None
                     ELSE /\ r.user_info = None
                          /\ r.error = Some("Incorrect password.")

\* C5, where the looked-up row has a hash: the four outcomes are as claimed
C5_OutcomesWithStoredHash ==
    \A e \in AllEmails, p \in Passwords, fault \in 0..1 :
        LET r == verify_user(DB, e, p, fault)
            rows == {u \in users : u.email = e}
        IN  (\A u \in rows : u.password_hash # None) =>
            /\ r.db = DB
            /\ ~r.raised
            /\ fault # 0 => r.user_info = None /\ r.error = Some(DatabaseError)
            /\ fault = 0 /\ rows = {} =>
                  r.user_info = None /\ r.error = Some("Email not found.")
            /\ fault = 0 /\ rows # {} =>
                  \A u \in rows :
                     IF pbkdf2_verify(p, u.password_hash[1])
                     THEN /\ r.user_info = Some([name |-> u.name, role |-> u.role])
                          /\ r.error = None
                     ELSE /\ r.user_info = None
                          /\ r.error = Some("Incorrect password.")

OtherTablesKept(db) ==
    /\ db.projects = projects
    /\ db.queries = queries
    /\ db.student_project_mapping = student_project_mapping
    /\ db.student_project_map = student_project_map

\* C6: save_user without a password (None or "") changes the name and role of
\* the row of that email and nothing else, above all not its password_hash;
\* without such a row it writes nothing; either way it reports success.
C6_SaveUserWithoutPassword ==
    \A e \in AllEmails, pr \in Profiles, pw \in {None, Some(<<>>)} :
        LET r == save_user(DB, e, pr.name, pw, pr.role, FreshSalt(1), 0) IN
        /\ r.ok
        /\ r.msg = "User saved successfully."
        /\ OtherTablesKept(r.db)
        /\ {u.email : u \in r.db.users} = {u.email : u \in users}
        /\ Cardinality(r.db.users) = Cardinality(users)
        /\ \A u \in users :
              \E v \in r.db.users :
                 /\ v.email = u.email
                 /\ v.password_hash = u.password_hash
                 /\ IF u.email = e THEN v.name = pr.name /\ v.role = pr.role
                    ELSE v = u
        /\ (\A u \in users : u.email # e) => r.db = DB

\* C6 witness: the administrator was renamed without a password and still has
\* the hash the seeding gave
C6_Witness ==
    /\ last.op = "save_user"
    /\ last.how = "no password"
    /\ last.ret.ok
    /\ last.email = Some(AdminEmail)
    /\ \E u \in users : /\ u.email = AdminEmail
                        /\ u.name # JaneAdmin
                        /\ u.password_hash = Some(hash_password(default123, <<0, 1>>))

\* C7: after a successful save_user with a password there is exactly one users
\* row for the email, with the given name and role and a hash the password
\* verifies against, whether or not a row existed; other rows are unchanged.
C7_SaveUserWithPassword ==
    \A e \in AllEmails, pr \in Profiles, pw \in Passwords :
        LET r == save_user(DB, e, pr.name, Some(pw), pr.role, FreshSalt(1), 0) IN
        /\ r.ok
        /\ OtherTablesKept(r.db)
        /\ Cardinality({u \in r.db.users : u.email = e}) = 1
        /\ \A u \in r.db.users : u.email = e => u.name = pr.name /\ u.role = pr.role
        /\ verify_user(r.db, e, pw, 0).user_info =
              Some([name |-> pr.name, role |-> pr.role])
        /\ {u \in r.db.users : u.email # e} = {u \in users : u.email # e}

\* C7 witness: the administrator's row was replaced by a save_user with a password
C7_Witness ==
    /\ last.op = "save_user"
    /\ last.how = "password"
    /\ last.ret.ok
    /\ last.email = Some(AdminEmail)
    /\ verify_user(DB, AdminEmail, Pw1, 0).user_info # None
    /\ Cardinality(users) > 1

\* C8: reset_user_password fails with "User not found." and writes nothing
\* when no users row has the email; otherwise it changes the password_hash of
\* that row only, the new password verifies and a different password that
\* verified before no longer does.
C8_ResetUserPassword ==
    \A e \in AllEmails, new \in Passwords :
        LET r == reset_user_password(DB, e, new, FreshSalt(1), 0) IN
        IF \A u \in users : u.email # e
        THEN ~r.ok /\ r.msg = "User not found." /\ r.db = DB
        ELSE /\ r.ok
             /\ OtherTablesKept(r.db)
             /\ Cardinality(r.db.users) = Cardinality(users)
             /\ \A u \in users :
                   \E v \in r.db.users :
                      /\ v.email = u.email /\ v.name = u.name /\ v.role = u.role
                      /\ u.email # e => v = u
             /\ verify_user(r.db, e, new, 0).user_info # None
             /\ \A old \in Passwords \ {new} :
                   verify_user(r.db, e, old, 0).error = Some("Incorrect password.")

\* C8 witness: the administrator's password was reset and the seeded password
\* is now refused
C8_Witness ==
    /\ last.op = "reset_user_password"
    /\ last.ret.ok
    /\ last.email = Some(AdminEmail)
    /\ verify_user(DB, AdminEmail, default123, 0).error = Some("Incorrect password.")
    /\ verify_user(DB, AdminEmail, Pw1, 0).user_info # None

\* C9: student_project_mapping holds at most one row per student, and
\* get_project_title_for_student returns the title of the student's latest
\* successful save_project or imported row since the student was last deleted,
\* None when there is none.
C9_CurrentProject ==
    \A e \in AllEmails :
        /\ Cardinality({m \in student_project_mapping : m.student_email = e}) <= 1
        /\ Cardinality({h \in current_project : h.email = e}) <= 1
        /\ get_project_title_for_student(DB, e, 0) =
              IF \E h \in current_project : h.email = e
              THEN Some((CHOOSE h \in current_project : h.email = e).title)
              ELSE None

\* C9 witness: a student's second project title replaced the first
C9_Witness ==
    /\ last.op = "save_project"
    /\ last.ret.ok
    /\ \E p \in projects :
          /\ p.email = last.email[1]
          /\ Some(p.project_title) # get_project_title_for_student(DB, p.email, 0)

\* C10: no queries row has an empty project_title: save_query stores the
\* caller's title when one is given, else the student's title in
\* student_project_mapping, else "No Project Assigned".
C10_QueryTitleResolved ==
    /\ \A q \in queries : q.project_title # <<>>
    /\ \A e \in Emails, qu \in Questions, t \in OptionalTitles :
          LET r == save_query(DB, e, Alice, t, qu, "r1", now, None, uuid4 + 1, 0, 0)
              mapped == {m \in student_project_mapping : m.student_email = e}
              expected ==
                  IF t # None /\ t[1] # <<>> THEN t[1]
                  ELSE IF \E m \in mapped : m.project_title # <<>>
                  THEN (CHOOSE m \in mapped : TRUE).project_title
                  ELSE NoProjectAssigned
          IN  r.inserted =>
                 \E q \in r.db.queries \ queries :
                    /\ q.email = e /\ q.question = qu /\ q.timestamp = now
                    /\ q.project_title = expected
                    /\ q.project_title # <<>>

\* C10 witness: a query saved without a title carries the student's mapped title
C10_Witness ==
    /\ last.op = "save_query"
    /\ last.how = "no title"
    /\ last.ret.inserted
    /\ \E q \in queries : q.email = last.email[1] /\ q.project_title = AITutor

\* C11: init_db on a database that was initialized before changes no existing
\* row of any table: the default administrator's email never gets a second
\* row, and a row of that email, however it was modified, keeps its name, role
\* and password_hash; running it again changes nothing.
C11_InitDbKeepsRows ==
    LET r == init_db(DB, FreshSalt(1)) IN
    /\ users \subseteq r.users
    /\ OtherTablesKept(r)
    /\ Cardinality({u \in r.users : u.email = AdminEmail}) = 1
    /\ (\E u \in users : u.email = AdminEmail) => r = DB
    /\ init_db(r, FreshSalt(2)) = r
    /\ (last.op = "init_db" /\ steps > 0) =>
          Cardinality({u \in users : u.email = AdminEmail}) = 1

\* C11 witness: init_db ran on a database whose administrator row had been
\* given another name and password, and the row is as it was
C11_Witness ==
    /\ last.op = "init_db"
    /\ steps > 0
    /\ \E u \in users : /\ u.email = AdminEmail
                        /\ u.name # JaneAdmin
                        /\ u.password_hash # None
                        /\ pbkdf2_verify(Pw1, u.password_hash[1])

\* the first row of a file whose stripped email cell is e
FirstRowOf(rows, e) ==
    rows[CHOOSE i \in 1..Len(rows) :
            /\ Cell(rows[i], "email") = e
            /\ \A j \in 1..(i - 1) : Cell(rows[j], "email") # e]

\* C12: a successful bulk_register_users returns the number of distinct emails
\* of the file that had no users row before; each of them gets one row with
\* the name and role of the file (of its first row, when the file repeats the
\* email), which the default password verifies against, and every row that was
\* there before is unchanged.
C12_BulkRegisterCountsInserted ==
    \A csv \in CompleteUserCsvs :
        LET r == bulk_register_users(DB, csv, BulkSalts(csv), 0)
            file == {Cell(csv.rows[i], "email") : i \in 1..Len(csv.rows)}
            fresh == file \ {u.email : u \in users}
        IN  r.ok =>
              /\ r.users_added = Cardinality(fresh)
              /\ users \subseteq r.db.users
              /\ {u.email : u \in r.db.users} = {u.email : u \in users} \cup fresh
              /\ Cardinality(r.db.users) = Cardinality(users) + Cardinality(fresh)
              /\ OtherTablesKept(r.db)
              /\ \A e \in fresh :
                    LET row == FirstRowOf(csv.rows, e) IN
                    /\ \A u \in r.db.users :
                          u.email = e => /\ u.name = Cell(row, "name")
                                         /\ u.role = Cell(row, "role")
                    /\ verify_user(r.db, e, default123, 0).user_info =
                          Some([name |-> Cell(row, "name"), role |-> Cell(row, "role")])

\* C12 witness: a file of two rows registered one user, because the other
\* row's email (the administrator's) had a row, which is as it was
C12_Witness ==
    /\ last.op = "bulk_register_users"
    /\ last.ret.ok
    /\ last.ret.users_added = 1
    /\ \E u \in users : u.email = S2 /\ u.name = Alice
    /\ \E u \in users : u.email = AdminEmail /\ u.name = JaneAdmin /\ u.role = Admin

\* the reasons for which a mapping file is to be rejected: a required column
\* is missing, the file has no row, a cell is missing, a student_id is no email
MappingCsvRejected(csv) ==
    \/ ~(RequiredMappingColumns \subseteq csv.columns)
    \/ csv.rows = <<>>
    \/ \E i \in 1..Len(csv.rows) :
          \/ csv.rows[i].student_id = None
          \/ csv.rows[i].project_title = None
          \/ ~is_valid_email(Strip(csv.rows[i].student_id[1]))

\* C13: save_student_project_mapping fails on a file with a missing required
\* column, no row, a missing value or a student_id that is not an email, and
\* then no table is written, also when valid rows precede the invalid one.
C13_RejectedMappingWritesNothing ==
    \A csv \in MappingCsvs :
        LET r == save_student_project_mapping(DB, csv, now, uuid4 + 1, 0) IN
        /\ MappingCsvRejected(csv) <=> ~r.ok
        /\ ~r.ok => r.db = DB /\ r.mappings_added = 0

\* C13 witness: a file was rejected at its second row, and the student of its
\* first row has no mapping and no project
C13_Witness ==
    /\ last.op = "save_student_project_mapping"
    /\ ~last.ret.ok
    /\ last.ret.cite = Some(BadEmail)
    /\ \A m \in student_project_mapping : m.student_email # AdminEmail
    /\ \A p \in projects : p.email # AdminEmail

\* C14: the mapping import writes projects insert-if-absent: importing a
\* (student, project_title) pair that has a projects row adds none, so a
\* second import of the same file leaves projects as the first left it.
C14_MappingImportProjectsIfAbsent ==
    \A csv \in MappingCsvs :
        LET first == save_student_project_mapping(DB, csv, now, uuid4 + 1, 0)
            second == save_student_project_mapping(first.db, csv, now,
                          uuid4 + 1 + Len(csv.rows), 0)
        IN  first.ok =>
              /\ second.ok
              /\ second.db.projects = first.db.projects
              /\ \A p, q \in first.db.projects \ projects :
                    (p.email = q.email /\ p.project_title = q.project_title) => p = q

\* C14: the part of the second import that holds: the mapping table is as the
\* first import left it
C14_SecondImportKeepsMapping ==
    \A csv \in MappingCsvs :
        LET first == save_student_project_mapping(DB, csv, now, uuid4 + 1, 0)
            second == save_student_project_mapping(first.db, csv, now,
                          uuid4 + 1 + Len(csv.rows), 0)
        IN  first.ok =>
              /\ second.ok
              /\ second.db.student_project_mapping = first.db.student_project_mapping
              /\ Cardinality(second.db.projects) =
                    Cardinality(first.db.projects) + Len(csv.rows)

\* a sequence of texts in ascending order without a repeated text
SortedDistinct(seq) ==
    \A i \in 1..Len(seq) : \A j \in (i + 1)..Len(seq) : TextLess(seq[i], seq[j])

Range(seq) == {seq[i] : i \in 1..Len(seq)}

\* C15: get_available_projects returns, sorted and without duplicates, every
\* title that save_project or a mapping import has ever mapped to a student,
\* also a title that a later mapping of the same student has replaced.
C15_AvailableProjectsEverMapped ==
    LET projects_list == get_available_projects(DB, 0) IN
    /\ SortedDistinct(projects_list)
    /\ Range(projects_list) = mapped_titles

\* C15, the part that holds: the list is sorted, without duplicates, and holds
\* exactly the titles student_project_mapping has now, all of them mapped once
C15_AvailableProjectsCurrentlyMapped ==
    LET projects_list == get_available_projects(DB, 0) IN
    /\ SortedDistinct(projects_list)
    /\ Range(projects_list) = {m.project_title : m \in student_project_mapping}
    /\ Range(projects_list) = {h.title : h \in current_project}
    /\ Range(projects_list) \subseteq mapped_titles

\* C19: the feedback_rating of every queries row is null or an integer from 1
\* to 5, whether save_query (called without a rating) or the rating update
\* wrote it.
C19_FeedbackRatingInRange ==
    /\ \A q \in queries :
          q.feedback_rating = None \/ q.feedback_rating[1] \in 1..5
    /\ \A e \in Emails, t \in 1..now, rating \in FeedbackRatings :
          \A q \in submit_rating(DB, e, t, rating, 0).db.queries :
             q.feedback_rating = None \/ q.feedback_rating[1] \in 1..5
    /\ last.op = "save_query" /\ last.ret.inserted =>
          \E q \in queries : q.email = last.email[1] /\ q.feedback_rating = None

\* C19 witness: the rating update wrote the rating of a stored query
C19_Witness ==
    /\ last.op = "submit_rating"
    /\ last.ret.ok
    /\ last.ret.rowcount > 0
    /\ \E q \in queries : q.email = last.email[1] /\ q.feedback_rating # None

\* C20: every repository operation has released the connection it opened
\* when it returns, on the normal path, on an early return for invalid input
\* and on the return after a storage error.
C20_ConnectionReleased == connection = "closed"

\* C20, the part that holds: an operation that reports success, or that finds
\* no users row to reset or delete, has closed its connection
C20_ReleasedOnSuccess ==
    /\ (last.op \in {"reset_user_password", "save_user", "save_project", "delete_user",
                     "submit_rating", "bulk_register_users",
                     "save_student_project_mapping"}
        /\ last.ret.ok) => connection = "closed"
    /\ (last.op \in {"reset_user_password", "delete_user"}
        /\ last.ret.msg = "User not found.") => connection = "closed"
    /\ (last.op = "verify_user" /\ last.ret.error # Some(DatabaseError)) =>
          connection = "closed"
    /\ (last.op \in {"bulk_register_users", "save_student_project_mapping"}
        /\ ~last.ret.ok) => connection = "open"

\* the filter values the export claims range over: none, the empty text, "All
\* Projects", values that rows carry and values that no row carries
FilterEmails == {None, Some(<<>>), Some(S1), Some(S2)}
FilterProjects == {None, Some(<<>>), Some(AllProjects), Some(AITutor), Some(NoProjectAssigned)}
FilterDates == {None} \cup {Some(d) : d \in 0..1}

\* a filter is supplied when it is given and not empty
Supplied(filter) == filter # None /\ filter # Some(<<>>)

\* the queries rows that satisfy all supplied filters
Satisfying(student_email, project_filter, date_from, date_to) ==
    {q \in queries :
        /\ Supplied(student_email) => q.email = student_email[1]
        /\ Supplied(project_filter) =>
              (project_filter[1] = AllProjects \/ q.project_title = project_filter[1])
        /\ date_from # None => date_from[1] <= Date(q.timestamp)
        /\ date_to # None => Date(q.timestamp) <= date_to[1]}

\* the reports write nothing, so the stored databases are those no report has
\* read yet
Unread == steps = 0

\* C16: for every filter combination, export_query_logs_to_csv returns None
\* exactly when no queries row satisfies all supplied filters (email equal,
\* project_title equal unless the filter is "All Projects", date-from <= date
\* of the timestamp <= date-to, both inclusive); otherwise the header is
\* exactly the seven column names and the data rows are exactly the satisfying
\* rows, by descending timestamp.
C16_CsvExportMatchingRows ==
    Unread =>
    \A e \in FilterEmails, p \in FilterProjects, from \in FilterDates, to \in FilterDates :
        LET r == export_query_logs_to_csv(DB, e, p, from, to, 0)
            matching == Satisfying(e, p, from, to)
        IN  /\ ~r.raised
            /\ r.data = None <=> matching = {}
            /\ r.data # None =>
                 LET csv == r.data[1]
                 IN  /\ csv.header = <<"email", "name", "project_title", "question",
                                       "response", "timestamp", "feedback_rating">>
                     /\ Len(csv.rows) = Cardinality(matching)
                     /\ {csv.rows[i] : i \in 1..Len(csv.rows)}
                           = {SelectColumns(q) : q \in matching}
                     /\ \A i, j \in 1..Len(csv.rows) :
                           i < j => csv.rows[i].timestamp >= csv.rows[j].timestamp

\* an export by project and date range returned two rows of different
\* timestamps, the later first, and left a stored row out
C16_Witness ==
    /\ last.op = "export_query_logs_to_csv"
    /\ last.how.filters.project_filter = Some(AITutor)
    /\ last.ret.data # None
    /\ Len(last.ret.data[1].rows) >= 2
    /\ last.ret.data[1].rows[1].timestamp > last.ret.data[1].rows[2].timestamp
    /\ Len(last.ret.data[1].rows) < Cardinality(queries)

\* an export over a date range that no row falls in returned None although
\* rows are stored
C16_WitnessAbsent ==
    /\ last.op = "export_query_logs_to_csv"
    /\ last.how.fault = 0
    /\ last.how.filters.date_to = Some(0)
    /\ last.ret.data = None
    /\ queries # {}

\* C17: for every stored database and every filter combination,
\* export_query_logs_to_pdf puts the rows export_query_logs_to_csv returns into
\* its table, in the same order, and, unless rendering fails, returns None
\* exactly when export_query_logs_to_csv does.
C17_PdfExportSameRowsAsCsv ==
    Unread =>
    \A e \in FilterEmails, p \in FilterProjects, from \in FilterDates, to \in FilterDates :
        LET csv == export_query_logs_to_csv(DB, e, p, from, to, 0).data
            pdf == export_query_logs_to_pdf(DB, e, p, from, to, 0, FALSE).data
        IN  /\ pdf = None <=> csv = None
            /\ pdf # None =>
                 /\ Len(pdf[1]) = Len(csv[1].rows) + 1
                 /\ \A i \in 1..Len(csv[1].rows) :
                       LET shown == pdf[1][i + 1]
                           row == csv[1].rows[i]
                       IN  /\ shown.email = row.email
                           /\ shown.name = row.name
                           /\ shown.project_title = row.project_title
                           /\ shown.timestamp = row.timestamp
                           /\ shown.rating.of = row.feedback_rating
            /\ export_query_logs_to_pdf(DB, e, p, from, to, 0, TRUE).data = None

\* a PDF export by student and date range rendered two rows, the later first,
\* and left a stored row out
C17_Witness ==
    /\ last.op = "export_query_logs_to_pdf"
    /\ last.how.fault = 0
    /\ ~last.how.render_fault
    /\ last.how.filters.student_email = Some(S1)
    /\ last.ret.data # None
    /\ Len(last.ret.data[1]) = 3
    /\ last.ret.data[1][2].timestamp > last.ret.data[1][3].timestamp
    /\ Cardinality(queries) > 2

\* C18: get_dashboard_stats returns the number of users rows with role
\* student, the number of distinct project_title values of
\* student_project_mapping, the number of queries rows, and the average of the
\* non-null feedback_rating values rounded to 2 decimals (here in hundredths),
\* which is None exactly when no queries row has a rating; ratings 5, 4, 3 and
\* 2 among 10 queries give 3.5.
C18_DashboardStats ==
    Unread =>
    LET stats == get_dashboard_stats(DB, 0)
        rated == {q \in queries : q.feedback_rating # None}
        n == Cardinality(rated)
        exact == 100 * SumOfRatings(rated)
    IN  /\ stats.total_students = Cardinality({u \in users : u.role = Student})
        /\ stats.total_projects
              = Cardinality({m.project_title : m \in student_project_mapping})
        /\ stats.total_queries = Cardinality(queries)
        /\ stats.avg_ratings = None <=> rated = {}
        /\ rated # {} =>
              LET hundredths == stats.avg_ratings[1]
              IN  /\ 2 * (hundredths * n - exact) <= n
                  /\ 2 * (exact - hundredths * n) <= n
        /\ (/\ Cardinality(queries) = 10
            /\ n = 4
            /\ {q.feedback_rating[1] : q \in rated} = {5, 4, 3, 2})
              => stats.avg_ratings = Some(350)

\* the dashboard read three students, two mapped projects and ten queries of
\* which four are rated 5, 4, 3 and 2
C18_Witness ==
    /\ last.op = "get_dashboard_stats"
    /\ last.how.fault = 0
    /\ Cardinality({q \in queries : q.feedback_rating # None}) = 4
    /\ last.ret = [total_students |-> 3, total_projects |-> 2, total_queries |-> 10,
                   avg_ratings |-> Some(350)]

\* C21: no repository or export function raises past its boundary: for every
\* input and every database state, with a storage failure at any statement
\* and with a users row whose password_hash is NULL, verify_user and both
\* exports return their failure indicator instead of raising.
C21_NothingRaisesPastBoundary ==
    /\ \A e \in AllEmails, p \in Passwords, fault \in 0..1 :
          ~verify_user(DB, e, p, fault).raised
    /\ \A e \in {None, Some(S1)}, p \in {None, Some(AITutor)}, fault \in 0..2 :
          /\ ~export_query_logs_to_csv(DB, e, p, None, None, fault).raised
          /\ \A render_fault \in BOOLEAN :
                ~export_query_logs_to_pdf(DB, e, p, None, None, fault,
                                          render_fault).raised

\* a login with the address of a row whose password_hash is NULL raised
C21_Witness ==
    /\ last.op = "verify_user"
    /\ last.ret.raised
    /\ \E u \in users : u.email = last.email[1] /\ u.password_hash = None

\* the emails the four tables hold
StoredEmails ==
    {u.email : u \in users} \cup {p.email : p \in projects}
       \cup {q.email : q \in queries}
       \cup {m.student_email : m \in student_project_mapping}

\* C22: every email written to users, projects, queries or
\* student_project_mapping was validated before the write, so in every
\* reachable state every stored email matches the pattern: a local part, "@",
\* and a domain with at least one dot.
C22_StoredEmailsMatchPattern == \A email \in StoredEmails : MatchesPattern(email)

\* the Register User handler stored an address that ends in a line break
C22_Witness ==
    /\ last.op = "register_user"
    /\ last.ret.ok
    /\ \E u \in users : u.email = last.email[1] /\ ~MatchesPattern(u.email)

\* C22, as far as it holds: every stored email is one that is_valid_email
\* accepts
C22_StoredEmailsAccepted == \A email \in StoredEmails : is_valid_email(email)

\* C23: student_project_map is append-only: no step removes or changes a row
\* of it, and a successful delete_user(e) keeps the rows with student_id = e
\* while it removes every projects row of e, those the kept rows refer to
\* included.
C23_StudentProjectMapAppendOnly ==
    [][/\ student_project_map \subseteq student_project_map'
       /\ (steps' # steps /\ last'.op = "delete_user" /\ last'.ret.ok) =>
             LET e == last'.email[1] IN
             /\ {m \in student_project_map' : m.student_id = e}
                   = {m \in student_project_map : m.student_id = e}
             /\ \A p \in projects' : p.email # e]_vars

\* a user who had saved a project was deleted: the student_project_map row is
\* still there and the project it refers to is not
C23_Witness ==
    /\ last.op = "delete_user"
    /\ last.ret.ok
    /\ \E m \in student_project_map :
          /\ m.student_id = last.email[1]
          /\ \A p \in projects : p.project_id # m.project_id

\* the queries rows of db other than the one asked by email at timestamp with
\* the given question
OtherQueries(db, email, question, timestamp) ==
    {q \in db.queries : ~(q.email = email /\ q.question = question
                          /\ q.timestamp = timestamp)}

\* C24: submitting a rating for the query (email, question, timestamp) changes
\* the feedback_rating of that row only: every other queries row, also one of
\* the same student and timestamp with another question, stays as it is, and
\* the rated row changes in no other column.
C24_RatingChangesOneRow ==
    \A e \in Emails, question \in Questions, t \in 1..now, rating \in FeedbackRatings :
        LET after == submit_rating(DB, e, t, rating, 0).db IN
        (\E q \in queries : q.email = e /\ q.question = question /\ q.timestamp = t) =>
        /\ OtherQueries(after, e, question, t) = OtherQueries(DB, e, question, t)
        /\ {[q EXCEPT !.feedback_rating = None] : q \in after.queries}
              = {[q EXCEPT !.feedback_rating = None] : q \in queries}

\* C24, as far as it holds: the update changes feedback_rating only, and only
\* in rows of the given student and timestamp; the other tables are untouched
C24_RatingChangesRowsOfTimestamp ==
    \A e \in Emails, t \in 1..now, rating \in FeedbackRatings, fault \in 0..1 :
        LET after == submit_rating(DB, e, t, rating, fault).db IN
        /\ {q \in after.queries : ~(q.email = e /\ q.timestamp = t)}
              = {q \in queries : ~(q.email = e /\ q.timestamp = t)}
        /\ {[q EXCEPT !.feedback_rating = None] : q \in after.queries}
              = {[q EXCEPT !.feedback_rating = None] : q \in queries}
        /\ [after EXCEPT !.queries = queries] = DB

\* the requests issued in the period that ends at time t
IssuedInWindow(t) == {i \in 1..Len(issued) : t - PERIOD < issued[i] /\ issued[i] <= t}

\* C25: advisory calls are limited by delay: in any rolling window of PERIOD
\* time units at most CALLS requests are issued (a call over the limit being
\* delayed until it can be issued).
C25_AtMostCallsPerWindow ==
    \A t \in 0..now : Cardinality(IssuedInWindow(t)) <= CALLS

\* C25, what the program does instead: every call is issued at once, as the
\* first call of a limiter built by the same run of the script
C25_EveryCallIssuedAtOnce ==
    last.op = "kyra_response" => last.ret.slept = 0 /\ last.ret.num_calls = 1

\* an eleventh request was issued within one period, without delay
C25_Witness ==
    /\ last.op = "kyra_response"
    /\ Cardinality(IssuedInWindow(now)) > CALLS
    /\ last.ret.slept = 0

====
